---------------------------- MODULE Spec2Model ----------------------------
(***************************************************************************)
(* A model of src/nxt_process.c: process creation (fork and exec paths),   *)
(* the bootstrap sequence of a forked child, credential resolution and     *)
(* application, the reference-counted lifetime of a process record and     *)
(* the per-process registry of connected ports.                            *)
(*                                                                         *)
(* The file is a set of independent subsystems; each has its own group of  *)
(* variables, its own initial predicate and next-state relation, and the   *)
(* other groups stay at their initial values under that specification.     *)
(***************************************************************************)
EXTENDS Integers, Sequences, FiniteSets, TLC

(***************************************************************************)
(* Bounds of the model.                                                    *)
(***************************************************************************)
\* process records of the port-lifetime part
NumRecords == 2
\* ports that may be attached in the port-lifetime part
MaxPorts == 3
\* records the process table may hold when fork() is called
MaxInherited == 2
\* NGROUPS_MAX of the platform, scaled down
NgroupsMax == 2
\* calls of the registry functions in a run
MaxCalls == 3
\* calls of nxt_process_execute in a run
MaxExec == 2
\* the largest file descriptor of the daemon part
MaxFd == 4

VARIABLES
    \* ---- process record lifetime (nxt_process_port_add / _mp_cleanup) ----
    processes,       \* rt->processes: the records currently in the table
    port_cleanups,   \* process->port_cleanups, per record
    ports,           \* process->ports, per record: queue of ports, head first
    port_process,    \* port->process, per port (NoProcess = NULL)
    mp_cleanup,      \* per port: state of the callback on port->mem_pool
    remove_calls     \* per record: calls of nxt_runtime_process_remove so far

portVars == <<processes, port_cleanups, ports, port_process, mp_cleanup,
              remove_calls>>

VARIABLES
    \* ---- fork path: the caller of nxt_process_create (the parent) ----
    init,            \* process->init: the role configuration (immutable)
    pre_table,       \* rt->processes as it was when fork() was called
    p_pc,            \* position of the parent in nxt_process_create
    p_table,         \* rt->processes of the parent
    p_process,       \* *process in the parent
    p_ret,           \* value returned to the caller in the parent
    p_rt,            \* parent: [types |-> rt->types, tid |-> thread->tid]
    p_id,            \* parent: [uid, gid, groups] of the OS process
    \* ---- fork path: the child ----
    c_pc,            \* position of the child in nxt_process_create/_start
    c_table,         \* rt->processes of the child (its inherited copy)
    c_todo,          \* records nxt_runtime_process_each has yet to visit
    c_process,       \* *process in the child
    c_rt,            \* child: [types, tid, nxt_pid]
    c_id,            \* child: [uid, gid, groups] of the OS process
    c_ports,         \* child: state of the main port and of its own port
    c_sent,          \* messages the child wrote to the main port
    c_trace,         \* calls made by nxt_process_start, with their results
    c_exit           \* exit status of the child (NotExited while it runs)

forkVars == <<init, pre_table, p_pc, p_table, p_process, p_ret, p_rt, p_id,
              c_pc, c_table, c_todo, c_process, c_rt, c_id, c_ports, c_sent,
              c_trace, c_exit>>

VARIABLES
    \* ---- credential resolution (nxt_user_cred_get, nxt_user_groups_get) ----
    g_pc,            \* position in nxt_user_cred_get / nxt_user_groups_get
    g_in,            \* the arguments: uc->user and group
    g_uc,            \* *uc, the credential being resolved
    g_id,            \* the resolving process: [uid, groups]
    g_groups0,       \* its supplementary groups when the call was made
    g_saved,         \* nsaved and the array saved
    g_ngroups,       \* the local ngroups
    g_ret,           \* the local ret; the value returned once g_pc = "returned"
    g_trace          \* system and library calls made, with their results

credVars == <<g_pc, g_in, g_uc, g_id, g_groups0, g_saved, g_ngroups, g_ret,
              g_trace>>

VARIABLES
    \* ---- registry of connected ports (nxt_process_connected_port_*) ----
    cp_mutex,        \* process->cp_mutex, per record: the holder or NoThread
    cp_mem_pool,     \* process->cp_mem_pool, per record: a pool or NullPool
    connected_ports, \* process->connected_ports, per record: the ports in it
    pools_created,   \* per record: calls of nxt_mp_create so far
    calls,           \* calls of the three functions made so far
    t_pc,            \* per thread: position in the function it is in
    t_op,            \* per thread: the function and its arguments
    t_res,           \* per thread: res of _find ({} is NULL)
    last_mod         \* per record and key: the last completed add or remove

regVars == <<cp_mutex, cp_mem_pool, connected_ports, pools_created, calls,
             t_pc, t_op, t_res, last_mod>>

VARIABLES
    \* ---- exec path (nxt_process_execute) ----
    x_posix_spawn,   \* NXT_HAVE_POSIX_SPAWN of the build
    x_pc,            \* position of the caller in nxt_process_execute
    x_exists,        \* whether the file `name` of the call in progress exists
    x_pid,           \* the local pid
    x_children,      \* the children created so far, by pid, and their state
    x_results        \* the calls that returned: [exists, created, ret]

execVars == <<x_posix_spawn, x_pc, x_exists, x_pid, x_children, x_results>>

VARIABLES
    \* ---- nxt_process_daemon ----
    d_pc,            \* position of the process that runs nxt_process_daemon
    d_parent,        \* the parent after fork(): "none", "forked", "exited"
    d_parent_exit,   \* exit status of the parent (NotExited while it runs)
    d_session,       \* whether the running process has its own session
    d_umask,         \* its file mode creation mask
    d_fds,           \* its descriptors: "closed", "tty" or "null" per number
    d_fd,            \* the local fd
    d_ids,           \* [nxt_pid, tid]: the cached pid and thread id
    d_ret,           \* the value returned once d_pc = "returned"
    d_trace          \* the steps made after fork(), with their results

daemonVars == <<d_pc, d_parent, d_parent_exit, d_session, d_umask, d_fds,
                d_fd, d_ids, d_ret, d_trace>>

vars == <<portVars, forkVars, credVars, regVars, execVars, daemonVars>>

\* the variables each part leaves alone
notPorts == <<forkVars, credVars, regVars, execVars, daemonVars>>
notFork == <<portVars, credVars, regVars, execVars, daemonVars>>
notCred == <<portVars, forkVars, regVars, execVars, daemonVars>>
notReg == <<portVars, forkVars, credVars, execVars, daemonVars>>
notExec == <<portVars, forkVars, credVars, regVars, daemonVars>>
notDaemon == <<portVars, forkVars, credVars, regVars, execVars>>

----------------------------------------------------------------------------
(***************************************************************************)
(* Process record lifetime.                                                *)
(***************************************************************************)
Records == 1..NumRecords
PortIds == 1..MaxPorts
NoProcess == 0

PortsInit ==
    /\ processes = Records
    /\ port_cleanups = [p \in Records |-> 0]
    /\ ports = [p \in Records |-> <<>>]
    /\ port_process = [q \in PortIds |-> NoProcess]
    /\ mp_cleanup = [q \in PortIds |-> "none"]
    /\ remove_calls = [p \in Records |-> 0]

\* nxt_runtime_process_remove(rt, process): deletes the record by identity;
\* a record that is not in the table is left alone.
RuntimeProcessRemove(table, p) == table \ {p}

\* nxt_mp_cleanup(port->mem_pool, handler, task, obj, data): registers the
\* handler, to be called once when the pool of port q is destroyed
MpCleanup(cleanups, q) == [cleanups EXCEPT ![q] = "pending"]

\* A faulty attach that registers the callback without counting it.
PortAddNoCount(p, q) ==
    /\ port_process[q] = NoProcess
    /\ port_process' = [port_process EXCEPT ![q] = p]
    /\ ports' = [ports EXCEPT ![p] = Append(@, q)]
    /\ mp_cleanup' = MpCleanup(mp_cleanup, q)
    /\ UNCHANGED <<port_cleanups, processes, remove_calls>>
    /\ UNCHANGED notPorts

\* nxt_process_port_add(task, process, port).  A port is attached when it
\* is created, so only ports without an owner are attached.
PortAdd(p, q) ==
    /\ port_process[q] = NoProcess
    /\ port_process' = [port_process EXCEPT ![q] = p]
    /\ ports' = [ports EXCEPT ![p] = Append(@, q)]
    /\ mp_cleanup' = MpCleanup(mp_cleanup, q)
    /\ port_cleanups' = [port_cleanups EXCEPT ![p] = @ + 1]
    /\ UNCHANGED <<processes, remove_calls>>
    /\ UNCHANGED notPorts

\* A faulty cleanup that removes the record on every callback.
PortMpCleanupNoCheck(q) ==
    LET p == port_process[q] IN
    /\ mp_cleanup[q] = "pending"
    /\ mp_cleanup' = [mp_cleanup EXCEPT ![q] = "fired"]
    /\ port_cleanups' = [port_cleanups EXCEPT ![p] = @ - 1]
    /\ processes' = RuntimeProcessRemove(processes, p)
    /\ remove_calls' = [remove_calls EXCEPT ![p] = @ + 1]
    /\ UNCHANGED <<ports, port_process>>
    /\ UNCHANGED notPorts

\* nxt_process_port_mp_cleanup(task, obj = process, data = rt): the callback
\* registered on the pool of port q fires, once, when that pool is destroyed.
PortMpCleanup(q) ==
    LET p == port_process[q] IN
    /\ mp_cleanup[q] = "pending"
    /\ mp_cleanup' = [mp_cleanup EXCEPT ![q] = "fired"]
    /\ port_cleanups' = [port_cleanups EXCEPT ![p] = @ - 1]
    /\ IF port_cleanups[p] - 1 = 0
       THEN /\ processes' = RuntimeProcessRemove(processes, p)
            /\ remove_calls' = [remove_calls EXCEPT ![p] = @ + 1]
       ELSE UNCHANGED <<processes, remove_calls>>
    /\ UNCHANGED <<ports, port_process>>
    /\ UNCHANGED notPorts

AttachPort == \E p \in Records, q \in PortIds : PortAdd(p, q)
CleanupFires == \E q \in PortIds : PortMpCleanup(q)

PortsNext == AttachPort \/ CleanupFires

\* ports attached to record p so far, and those whose cleanup is pending
Attached(p) == {q \in PortIds : port_process[q] = p}
Pending(p) == {q \in Attached(p) : mp_cleanup[q] = "pending"}

----------------------------------------------------------------------------
(***************************************************************************)
(* Fork path: nxt_process_create and, in the child, nxt_process_start and  *)
(* nxt_user_cred_set.  The parent and the child are two OS processes, each *)
(* with its own copy of the runtime; their steps interleave freely.        *)
(***************************************************************************)
RootUid == 0
NotExited == -1
ForkFailed == -1

\* pids of the records a table may hold at the fork, and of the new child
InheritedPids == 1..MaxInherited
Pids == 1..(MaxInherited + 1)

\* role type tags (init->type) and the bit of a tag in rt->types
TypeTags == {1, 2}
TypeBit(t) == 2 ^ t
\* x | (1U << t)
OrBit(x, t) == IF (x \div TypeBit(t)) % 2 = 1 THEN x ELSE x + TypeBit(t)
\* values of rt->types when fork() is called: bit 0 is the main process
TypesAtFork == {0, 1, 3, 7}

Streams == {3, 5}

\* supplementary groups of the accounts of the user database, as
\* initgroups(user, base_gid) sets them (base_gid included)
UserGroups(user) ==
    CASE user = "nobody" -> {}
      [] user = "www"    -> {33, 100}
      [] OTHER           -> {}
InitgroupsSet(user, base_gid) == UserGroups(user) \cup {base_gid}

\* the set of the first n entries of an array of gids
GidSet(gids, n) == {gids[i] : i \in 1..n}

\* init->user_cred: NULL, or a resolved credential; gids is NULL or an array
NullCred ==
    [null |-> TRUE, user |-> "", uid |-> 0, base_gid |-> 0,
     gids_null |-> TRUE, gids |-> <<>>, ngroups |-> 0]
Creds ==
    { [null |-> FALSE, user |-> "nobody", uid |-> 65534, base_gid |-> 65534,
       gids_null |-> TRUE, gids |-> <<>>, ngroups |-> 0],
      [null |-> FALSE, user |-> "nobody", uid |-> 65534, base_gid |-> 65534,
       gids_null |-> FALSE, gids |-> <<>>, ngroups |-> 0],
      [null |-> FALSE, user |-> "www", uid |-> 33, base_gid |-> 33,
       gids_null |-> FALSE, gids |-> <<33, 100>>, ngroups |-> 2] }

\* identities the caller of nxt_process_create may run under
Identities ==
    { [uid |-> RootUid, gid |-> 0, groups |-> {0}],
      [uid |-> 1000, gid |-> 1000, groups |-> {1000}] }

\* a process record as the table sees it
ProcessRecord(pid, ready, incoming, outgoing) ==
    [pid |-> pid, ready |-> ready, incoming |-> incoming, outgoing |-> outgoing]

\* the records a table may hold for one pid: ready or not, each direction
\* of bulk mappings either holding mappings or holding none
RecordsOf(pid) ==
    {ProcessRecord(pid, r, i, o) : r \in BOOLEAN, i \in BOOLEAN, o \in BOOLEAN}

\* tables: at most one record per pid
Tables ==
    {t \in SUBSET (UNION {RecordsOf(pid) : pid \in InheritedPids}) :
        \A a, b \in t : a.pid = b.pid => a = b}

\* the record handed to nxt_process_create: new, zeroed, without a pid
NewProcess == ProcessRecord(0, FALSE, FALSE, FALSE)

ChildIdle ==
    /\ c_pc = "none"
    /\ c_table = {}
    /\ c_todo = {}
    /\ c_process = NewProcess
    /\ c_rt = [types |-> 0, tid |-> 0, nxt_pid |-> 0]
    /\ c_id = [uid |-> RootUid, gid |-> 0, groups |-> {0}]
    /\ c_ports = [main_read |-> TRUE, main_write |-> FALSE,
                  port_write |-> TRUE, port_enabled |-> FALSE]
    /\ c_sent = <<>>
    /\ c_trace = <<>>
    /\ c_exit = NotExited

\* the state in which nxt_process_create is called
ForkInitOver(tables, inits, identities, types) ==
    /\ init \in inits
    /\ pre_table \in tables
    /\ p_pc = "fork"
    /\ p_table = pre_table
    /\ p_process = NewProcess
    /\ p_ret = 0
    /\ p_rt \in [types : types, tid : {1}]
    /\ p_id \in identities
    /\ ChildIdle

Inits == [type : TypeTags, user_cred : {NullCred} \cup Creds, stream : Streams]

\* every table content, for a role without and a role with a credential,
\* called by the super-user
ForkInit ==
    ForkInitOver(Tables,
                 {i \in Inits : \/ i.user_cred.null /\ i.type = 1 /\ i.stream = 3
                                \/ i.user_cred.user = "www" /\ i.type = 2
                                     /\ i.stream = 5},
                 {id \in Identities : id.uid = RootUid},
                 {1})

\* every role configuration, caller identity and rt->types, for the tables
\* of at most one record
BootInit ==
    ForkInitOver({t \in Tables : Cardinality(t) <= 1}, Inits, Identities,
                 TypesAtFork)

\* the fork group at rest, for the specifications of the other parts
ForkIdle ==
    /\ init = [type |-> 1, user_cred |-> NullCred, stream |-> 3]
    /\ pre_table = {}
    /\ p_pc = "fork"
    /\ p_table = {}
    /\ p_process = NewProcess
    /\ p_ret = 0
    /\ p_rt = [types |-> 0, tid |-> 1]
    /\ p_id = [uid |-> RootUid, gid |-> 0, groups |-> {0}]
    /\ ChildIdle

\* nxt_runtime_process_add(rt, process)
RuntimeProcessAdd(table, rec) == table \cup {rec}

\* nxt_port_mmaps_destroy(p->incoming, 0); nxt_port_mmaps_destroy(p->outgoing, 0)
MmapsDestroy(rec) == [rec EXCEPT !.incoming = FALSE, !.outgoing = FALSE]

parentVars == <<p_pc, p_table, p_process, p_ret, p_rt, p_id>>
childVars == <<c_pc, c_table, c_todo, c_process, c_rt, c_id, c_ports, c_sent,
               c_trace, c_exit>>

\* fork() fails: case -1, then return pid
ForkFail ==
    /\ p_pc = "fork"
    /\ p_ret' = ForkFailed
    /\ p_pc' = "returned"
    /\ UNCHANGED <<init, pre_table, p_table, p_process, p_rt, p_id, childVars>>
    /\ UNCHANGED notFork

\* fork() succeeds: the child starts as a copy of the parent and sees 0,
\* the parent sees the pid of the child, which no live process has
ForkOk(pid) ==
    /\ p_pc = "fork"
    /\ pid \notin {r.pid : r \in p_table}
    /\ p_ret' = pid
    /\ p_pc' = "parent"
    /\ c_pc' = "child"
    /\ c_table' = p_table
    /\ c_process' = p_process
    /\ c_rt' = [types |-> p_rt.types, tid |-> p_rt.tid, nxt_pid |-> 0]
    /\ c_id' = p_id
    /\ UNCHANGED <<init, pre_table, p_table, p_process, p_rt, p_id, c_todo,
                   c_ports, c_sent, c_trace, c_exit>>
    /\ UNCHANGED notFork

\* A faulty parent branch that inserts the record before it has its pid.
ParentAddBeforePid ==
    /\ p_pc = "parent"
    /\ p_table' = RuntimeProcessAdd(p_table, p_process)
    /\ p_process' = [p_process EXCEPT !.pid = p_ret]
    /\ p_pc' = "returned"
    /\ UNCHANGED <<init, pre_table, p_ret, p_rt, p_id, childVars>>
    /\ UNCHANGED notFork

\* default: process->pid = pid; nxt_runtime_process_add; return pid
ParentAdd ==
    /\ p_pc = "parent"
    /\ p_process' = [p_process EXCEPT !.pid = p_ret]
    /\ p_table' = RuntimeProcessAdd(p_table, p_process')
    /\ p_pc' = "returned"
    /\ UNCHANGED <<init, pre_table, p_ret, p_rt, p_id, childVars>>
    /\ UNCHANGED notFork

\* A faulty child branch that keeps the inherited rt->types.
ChildResetKeepTypes ==
    /\ c_pc = "child"
    /\ c_rt' = [types |-> c_rt.types, tid |-> 0, nxt_pid |-> p_ret]
    /\ c_process' = [c_process EXCEPT !.pid = p_ret]
    /\ c_todo' = c_table
    /\ c_pc' = "prune"
    /\ UNCHANGED <<init, pre_table, parentVars, c_table, c_id, c_ports,
                   c_sent, c_trace, c_exit>>
    /\ UNCHANGED notFork

\* case 0, up to the loop: the cached pid and tid, process->pid, rt->types
ChildReset ==
    /\ c_pc = "child"
    /\ c_rt' = [types |-> 0, tid |-> 0, nxt_pid |-> p_ret]
    /\ c_process' = [c_process EXCEPT !.pid = p_ret]
    /\ c_todo' = c_table
    /\ c_pc' = "prune"
    /\ UNCHANGED <<init, pre_table, parentVars, c_table, c_id, c_ports,
                   c_sent, c_trace, c_exit>>
    /\ UNCHANGED notFork

\* A faulty loop body that releases the incoming mappings only.
ChildPruneIncomingOnly(r) ==
    /\ c_pc = "prune"
    /\ r \in c_todo
    /\ c_todo' = c_todo \ {r}
    /\ c_table' = IF ~r.ready
                  THEN RuntimeProcessRemove(c_table, r)
                  ELSE (c_table \ {r}) \cup {[r EXCEPT !.incoming = FALSE]}
    /\ UNCHANGED <<init, pre_table, parentVars, c_pc, c_process, c_rt, c_id,
                   c_ports, c_sent, c_trace, c_exit>>
    /\ UNCHANGED notFork

\* one turn of nxt_runtime_process_each: the record r is visited
ChildPrune(r) ==
    /\ c_pc = "prune"
    /\ r \in c_todo
    /\ c_todo' = c_todo \ {r}
    /\ c_table' = IF ~r.ready
                  THEN RuntimeProcessRemove(c_table, r)
                  ELSE (c_table \ {r}) \cup {MmapsDestroy(r)}
    /\ UNCHANGED <<init, pre_table, parentVars, c_pc, c_process, c_rt, c_id,
                   c_ports, c_sent, c_trace, c_exit>>
    /\ UNCHANGED notFork

\* after the loop: nxt_runtime_process_add(rt, process), then the bootstrap
ChildAdd ==
    /\ c_pc = "prune"
    /\ c_todo = {}
    /\ c_table' = RuntimeProcessAdd(c_table, c_process)
    /\ c_pc' = "start"
    /\ UNCHANGED <<init, pre_table, parentVars, c_todo, c_process, c_rt, c_id,
                   c_ports, c_sent, c_trace, c_exit>>
    /\ UNCHANGED notFork


\* what is left alone by a step of nxt_process_start that only moves on
startFrame == <<init, pre_table, parentVars, c_table, c_todo, c_process>>

\* the call `name` returned ok (TRUE) or failed (FALSE)
Called(name, ok) == c_trace' = Append(c_trace, <<name, ok>>)

\* A faulty test that leaves out getuid() == 0.
StartBeginNoUidTest ==
    /\ c_pc = "start"
    /\ c_pc' = IF ~init.user_cred.null THEN "setgid" ELSE "types"
    /\ UNCHANGED <<startFrame, c_rt, c_id, c_ports, c_sent, c_trace, c_exit>>
    /\ UNCHANGED notFork

\* nxt_process_start up to the test of init->user_cred and getuid()
StartBegin ==
    /\ c_pc = "start"
    /\ c_pc' = IF ~init.user_cred.null /\ c_id.uid = RootUid
               THEN "setgid" ELSE "types"
    /\ UNCHANGED <<startFrame, c_rt, c_id, c_ports, c_sent, c_trace, c_exit>>
    /\ UNCHANGED notFork

\* nxt_user_cred_set: setgid(uc->base_gid)
CredSetgid(ok) ==
    /\ c_pc = "setgid"
    /\ Called("setgid", ok)
    /\ c_id' = IF ok THEN [c_id EXCEPT !.gid = init.user_cred.base_gid]
               ELSE c_id
    /\ c_pc' = IF ok THEN "setgroups" ELSE "fail"
    /\ UNCHANGED <<startFrame, c_rt, c_ports, c_sent, c_exit>>
    /\ UNCHANGED notFork

\* A faulty group step that goes on to setuid after a failure.
CredSetgroupsIgnoreFail(ok) ==
    LET uc == init.user_cred IN
    /\ c_pc = "setgroups"
    /\ Called(IF uc.gids_null THEN "initgroups" ELSE "setgroups", ok)
    /\ c_id' = IF ~ok THEN c_id
               ELSE IF uc.gids_null
               THEN [c_id EXCEPT !.groups = InitgroupsSet(uc.user, uc.base_gid)]
               ELSE [c_id EXCEPT !.groups = GidSet(uc.gids, uc.ngroups)]
    /\ c_pc' = "setuid"
    /\ UNCHANGED <<startFrame, c_rt, c_ports, c_sent, c_exit>>
    /\ UNCHANGED notFork

\* nxt_user_cred_set: setgroups(uc->ngroups, uc->gids) when uc->gids is
\* not NULL, initgroups(uc->user, uc->base_gid) otherwise
CredSetgroups(ok) ==
    LET uc == init.user_cred IN
    /\ c_pc = "setgroups"
    /\ IF ~uc.gids_null
       THEN /\ Called("setgroups", ok)
            /\ c_id' = IF ok
                       THEN [c_id EXCEPT !.groups = GidSet(uc.gids, uc.ngroups)]
                       ELSE c_id
       ELSE /\ Called("initgroups", ok)
            /\ c_id' = IF ok
                       THEN [c_id EXCEPT
                               !.groups = InitgroupsSet(uc.user, uc.base_gid)]
                       ELSE c_id
    /\ c_pc' = IF ok THEN "setuid" ELSE "fail"
    /\ UNCHANGED <<startFrame, c_rt, c_ports, c_sent, c_exit>>
    /\ UNCHANGED notFork

\* A faulty last step that lets the bootstrap go on when setuid has failed.
CredSetuidIgnoreFail(ok) ==
    /\ c_pc = "setuid"
    /\ Called("setuid", ok)
    /\ c_id' = IF ok THEN [c_id EXCEPT !.uid = init.user_cred.uid] ELSE c_id
    /\ c_pc' = "types"
    /\ UNCHANGED <<startFrame, c_rt, c_ports, c_sent, c_exit>>
    /\ UNCHANGED notFork

\* nxt_user_cred_set: setuid(uc->uid), and the return to nxt_process_start
CredSetuid(ok) ==
    /\ c_pc = "setuid"
    /\ Called("setuid", ok)
    /\ c_id' = IF ok THEN [c_id EXCEPT !.uid = init.user_cred.uid] ELSE c_id
    /\ c_pc' = IF ok THEN "types" ELSE "fail"
    /\ UNCHANGED <<startFrame, c_rt, c_ports, c_sent, c_exit>>
    /\ UNCHANGED notFork

\* rt->types |= (1U << init->type), and the signal set of the engine
StartTypes ==
    /\ c_pc = "types"
    /\ c_rt' = [c_rt EXCEPT !.types = OrBit(@, init.type)]
    /\ c_pc' = "service_get"
    /\ UNCHANGED <<startFrame, c_id, c_ports, c_sent, c_trace, c_exit>>
    /\ UNCHANGED notFork

\* a call of nxt_process_start that only succeeds or fails: at position
\* `at` the call `name` is made; on success the child moves on to `next`
StartCall(at, name, ok, next) ==
    /\ c_pc = at
    /\ Called(name, ok)
    /\ c_pc' = IF ok THEN next ELSE "fail"
    /\ UNCHANGED <<startFrame, c_rt, c_id, c_ports, c_sent, c_exit>>
    /\ UNCHANGED notFork

\* interface = nxt_service_get(rt->services, "engine", rt->engine)
StartServiceGet(ok) ==
    StartCall("service_get", "nxt_service_get", ok, "engine_change")

\* nxt_event_engine_change(engine, interface, rt->batch)
StartEngineChange(ok) ==
    StartCall("engine_change", "nxt_event_engine_change", ok, "thread_pool")

\* nxt_runtime_thread_pool_create(thread, rt, rt->auxiliary_threads, ...)
StartThreadPool(ok) ==
    StartCall("thread_pool", "nxt_runtime_thread_pool_create", ok, "ports")

\* nxt_port_read_close(main_port); nxt_port_write_enable(task, main_port);
\* nxt_port_write_close(port)
StartPorts ==
    /\ c_pc = "ports"
    /\ c_ports' = [c_ports EXCEPT !.main_read = FALSE, !.main_write = TRUE,
                                  !.port_write = FALSE]
    /\ c_pc' = "entry"
    /\ UNCHANGED <<startFrame, c_rt, c_id, c_sent, c_trace, c_exit>>
    /\ UNCHANGED notFork

\* A faulty entry step that goes on after init->start has failed.
StartEntryIgnoreFail(ok) ==
    /\ c_pc = "entry"
    /\ Called("init->start", ok)
    /\ c_pc' = "port_enable"
    /\ UNCHANGED <<startFrame, c_rt, c_id, c_ports, c_sent, c_exit>>
    /\ UNCHANGED notFork

\* ret = init->start(task, init->data)
StartEntry(ok) ==
    StartCall("entry", "init->start", ok, "port_enable")

\* nxt_port_enable(task, port, init->port_handlers)
StartPortEnable ==
    /\ c_pc = "port_enable"
    /\ c_ports' = [c_ports EXCEPT !.port_enabled = TRUE]
    /\ Called("nxt_port_enable", TRUE)
    /\ c_pc' = "send_ready"
    /\ UNCHANGED <<startFrame, c_rt, c_id, c_sent, c_exit>>
    /\ UNCHANGED notFork

\* A faulty send that returns to nxt_process_create when the write failed.
StartSendReadyIgnoreFail(ok) ==
    /\ c_pc = "send_ready"
    /\ Called("nxt_port_socket_write", ok)
    /\ c_sent' = IF ok
                 THEN Append(c_sent, [type |-> "READY", stream |-> init.stream])
                 ELSE c_sent
    /\ c_pc' = "set_ready"
    /\ UNCHANGED <<startFrame, c_rt, c_id, c_ports, c_exit>>
    /\ UNCHANGED notFork

\* nxt_port_socket_write(task, main_port, NXT_PORT_MSG_READY, -1,
\* init->stream, 0, NULL), and the return of nxt_process_start
StartSendReady(ok) ==
    /\ c_pc = "send_ready"
    /\ Called("nxt_port_socket_write", ok)
    /\ c_sent' = IF ok
                 THEN Append(c_sent, [type |-> "READY", stream |-> init.stream])
                 ELSE c_sent
    /\ c_pc' = IF ok THEN "set_ready" ELSE "fail"
    /\ UNCHANGED <<startFrame, c_rt, c_id, c_ports, c_exit>>
    /\ UNCHANGED notFork

\* fail: exit(1)
StartFail ==
    /\ c_pc = "fail"
    /\ c_exit' = 1
    /\ c_pc' = "exited"
    /\ UNCHANGED <<startFrame, c_rt, c_id, c_ports, c_sent, c_trace>>
    /\ UNCHANGED notFork

\* back in nxt_process_create: process->ready = 1; return pid (0).  The
\* table holds the record itself, so the table sees the flag.
ChildReady ==
    /\ c_pc = "set_ready"
    /\ c_process' = [c_process EXCEPT !.ready = TRUE]
    /\ c_table' = (c_table \ {c_process}) \cup {c_process'}
    /\ c_pc' = "returned"
    /\ UNCHANGED <<init, pre_table, parentVars, c_todo, c_rt, c_id, c_ports,
                   c_sent, c_trace, c_exit>>
    /\ UNCHANGED notFork

ForkNext ==
    \/ ForkFail
    \/ \E pid \in Pids : ForkOk(pid)
    \/ ParentAdd
    \/ ChildReset
    \/ \E r \in c_todo : ChildPrune(r)
    \/ ChildAdd
    \/ StartBegin
    \/ \E ok \in BOOLEAN : CredSetgid(ok)
    \/ \E ok \in BOOLEAN : CredSetgroups(ok)
    \/ \E ok \in BOOLEAN : CredSetuid(ok)
    \/ StartTypes
    \/ \E ok \in BOOLEAN : StartServiceGet(ok)
    \/ \E ok \in BOOLEAN : StartEngineChange(ok)
    \/ \E ok \in BOOLEAN : StartThreadPool(ok)
    \/ StartPorts
    \/ \E ok \in BOOLEAN : StartEntry(ok)
    \/ StartPortEnable
    \/ \E ok \in BOOLEAN : StartSendReady(ok)
    \/ StartFail
    \/ ChildReady

----------------------------------------------------------------------------
(***************************************************************************)
(* Credential resolution: nxt_user_cred_get and nxt_user_groups_get, run   *)
(* by one process.  Every system and library call may fail.                *)
(***************************************************************************)
NXT_OK == "NXT_OK"
NXT_ERROR == "NXT_ERROR"

\* the account and group databases behind getpwnam() and getgrnam()
Users == {"nobody", "www", "ghost"}
KnownUsers == {"nobody", "www"}
PwUid(user) == IF user = "www" THEN 33 ELSE 65534
PwGid(user) == IF user = "www" THEN 33 ELSE 65534
GroupNames == {"NULL", "", "staff", "nogroup"}
KnownGroups == {"staff"}
GrGid(group) == 50

\* the group sets the resolving process may have: every set over
\* NgroupsMax + 1 gids, so that the largest has more than NGROUPS_MAX
OwnGroupSets == SUBSET (0..NgroupsMax)

\* getgroups(n, list): the array the kernel fills for a group set
RECURSIVE SortedSeq(_)
SortedSeq(S) ==
    IF S = {} THEN <<>>
    ELSE LET m == CHOOSE x \in S : \A y \in S : x <= y
         IN <<m>> \o SortedSeq(S \ {m})

\* the set of an array of gids
SeqSet(s) == {s[i] : i \in DOMAIN s}

CredInit ==
    /\ g_pc = "getpwnam"
    /\ g_in \in [user : Users, group : GroupNames]
    /\ g_uc = [user |-> g_in.user, uid |-> 0, base_gid |-> 0, gids_null |-> TRUE,
             gids_filled |-> FALSE, gids |-> <<>>, ngroups |-> 0]
    /\ g_id \in {[uid |-> u, groups |-> s] :
                    u \in {RootUid, 1000}, s \in OwnGroupSets}
    /\ g_groups0 = g_id.groups
    /\ g_saved = [n |-> 0, list |-> <<>>]
    /\ g_ngroups = 0
    /\ g_ret = NXT_ERROR
    /\ g_trace = <<>>

\* the credential group at rest, for the specifications of the other parts
CredIdle ==
    /\ g_pc = "getpwnam"
    /\ g_in = [user |-> "nobody", group |-> "NULL"]
    /\ g_uc = [user |-> "nobody", uid |-> 0, base_gid |-> 0, gids_null |-> TRUE,
             gids_filled |-> FALSE, gids |-> <<>>, ngroups |-> 0]
    /\ g_id = [uid |-> RootUid, groups |-> {}]
    /\ g_groups0 = {}
    /\ g_saved = [n |-> 0, list |-> <<>>]
    /\ g_ngroups = 0
    /\ g_ret = NXT_ERROR
    /\ g_trace = <<>>

GCalled(name, ok) == g_trace' = Append(g_trace, <<name, ok>>)

\* pwd = getpwnam(uc->user); uc->uid, uc->base_gid
CredGetpwnam(ok) ==
    /\ g_pc = "getpwnam"
    /\ ok => g_in.user \in KnownUsers
    /\ GCalled("getpwnam", ok)
    /\ IF ok
       THEN /\ g_uc' = [g_uc EXCEPT !.uid = PwUid(g_in.user),
                                !.base_gid = PwGid(g_in.user)]
            /\ g_pc' = "getgrnam"
            /\ UNCHANGED g_ret
       ELSE /\ g_ret' = NXT_ERROR
            /\ g_pc' = "returned"
            /\ UNCHANGED g_uc
    /\ UNCHANGED <<g_in, g_id, g_groups0, g_saved, g_ngroups>>
    /\ UNCHANGED notCred

\* A faulty end of nxt_user_cred_get that enumerates the groups whoever
\* the caller is.
CredGetgrnamNoUidTest(ok) ==
    LET given == g_in.group \notin {"NULL", ""} IN
    /\ g_pc = "getgrnam"
    /\ IF given
       THEN /\ ok => g_in.group \in KnownGroups
            /\ GCalled("getgrnam", ok)
            /\ g_uc' = IF ok THEN [g_uc EXCEPT !.base_gid = GrGid(g_in.group)]
                     ELSE g_uc
            /\ g_pc' = IF ok THEN "getgroups0" ELSE "returned"
       ELSE /\ ok
            /\ g_pc' = "getgroups0"
            /\ UNCHANGED <<g_uc, g_trace>>
    /\ g_ret' = NXT_ERROR
    /\ UNCHANGED <<g_in, g_id, g_groups0, g_saved, g_ngroups>>
    /\ UNCHANGED notCred

\* if (group != NULL && group[0] != '\0') grp = getgrnam(group), and then
\* the test of getuid() that ends nxt_user_cred_get
CredGetgrnam(ok) ==
    LET given == g_in.group \notin {"NULL", ""}
        after == IF g_id.uid = RootUid THEN "getgroups0" ELSE "returned"
    IN
    /\ g_pc = "getgrnam"
    /\ IF given
       THEN /\ ok => g_in.group \in KnownGroups
            /\ GCalled("getgrnam", ok)
            /\ g_uc' = IF ok THEN [g_uc EXCEPT !.base_gid = GrGid(g_in.group)]
                     ELSE g_uc
            /\ g_pc' = IF ok THEN after ELSE "returned"
            /\ g_ret' = IF ok /\ after = "returned" THEN NXT_OK ELSE NXT_ERROR
       ELSE /\ ok
            /\ g_pc' = after
            /\ g_ret' = IF after = "returned" THEN NXT_OK ELSE NXT_ERROR
            /\ UNCHANGED <<g_uc, g_trace>>
    /\ UNCHANGED <<g_in, g_id, g_groups0, g_saved, g_ngroups>>
    /\ UNCHANGED notCred

\* nsaved = getgroups(0, NULL), the NGROUPS_MAX test, saved = nxt_malloc()
GroupsCount(ok, mem) ==
    /\ g_pc = "getgroups0"
    /\ GCalled("getgroups(0)", ok)
    /\ IF ~ok
       THEN g_ret' = NXT_ERROR /\ g_pc' = "returned" /\ UNCHANGED g_saved
       ELSE IF Cardinality(g_id.groups) > NgroupsMax
       THEN g_ret' = NXT_OK /\ g_pc' = "returned" /\ UNCHANGED g_saved
       ELSE IF ~mem
       THEN g_ret' = NXT_ERROR /\ g_pc' = "returned" /\ UNCHANGED g_saved
       ELSE /\ g_saved' = [n |-> Cardinality(g_id.groups), list |-> <<>>]
            /\ g_ret' = NXT_ERROR
            /\ g_pc' = "save"
    /\ UNCHANGED <<g_in, g_uc, g_id, g_groups0, g_ngroups>>
    /\ UNCHANGED notCred

\* nsaved = getgroups(nsaved, saved)
GroupsSave(ok) ==
    /\ g_pc = "save"
    /\ GCalled("getgroups(saved)", ok)
    /\ IF ok
       THEN /\ g_saved' = [n |-> Cardinality(g_id.groups),
                           list |-> SortedSeq(g_id.groups)]
            /\ g_pc' = "initgroups"
       ELSE /\ g_saved' = [g_saved EXCEPT !.n = -1]
            /\ g_pc' = "fail"
    /\ UNCHANGED <<g_in, g_uc, g_id, g_groups0, g_ngroups, g_ret>>
    /\ UNCHANGED notCred

\* initgroups(uc->user, uc->base_gid)
GroupsInitgroups(ok) ==
    /\ g_pc = "initgroups"
    /\ GCalled("initgroups", ok)
    /\ g_id' = IF ok
               THEN [g_id EXCEPT !.groups = InitgroupsSet(g_uc.user, g_uc.base_gid)]
               ELSE g_id
    /\ g_pc' = IF ok THEN "getgroups1" ELSE "restore"
    /\ UNCHANGED <<g_in, g_uc, g_groups0, g_saved, g_ngroups, g_ret>>
    /\ UNCHANGED notCred

\* ngroups = getgroups(0, NULL); uc->gids = nxt_malloc()
GroupsCountTarget(ok, mem) ==
    /\ g_pc = "getgroups1"
    /\ GCalled("getgroups(1)", ok)
    /\ IF ok /\ mem
       THEN /\ g_ngroups' = Cardinality(g_id.groups)
            /\ g_uc' = [g_uc EXCEPT !.gids_null = FALSE]
            /\ g_pc' = "read"
       ELSE /\ g_ngroups' = IF ok THEN Cardinality(g_id.groups) ELSE -1
            /\ g_pc' = "restore"
            /\ UNCHANGED g_uc
    /\ UNCHANGED <<g_in, g_id, g_groups0, g_saved, g_ret>>
    /\ UNCHANGED notCred

\* A faulty read step that leaves by `fail` and so skips the restore.
GroupsReadSkipRestore(ok) ==
    /\ g_pc = "read"
    /\ GCalled("getgroups(gids)", ok)
    /\ IF ok
       THEN /\ g_uc' = [g_uc EXCEPT !.gids = SortedSeq(g_id.groups),
                                !.gids_filled = TRUE,
                                !.ngroups = Cardinality(g_id.groups)]
            /\ g_ngroups' = Cardinality(g_id.groups)
            /\ g_ret' = NXT_OK
            /\ g_pc' = "restore"
       ELSE /\ g_ngroups' = -1
            /\ g_pc' = "fail"
            /\ UNCHANGED <<g_uc, g_ret>>
    /\ UNCHANGED <<g_in, g_id, g_groups0, g_saved>>
    /\ UNCHANGED notCred

\* ngroups = getgroups(ngroups, uc->gids); uc->ngroups = ngroups; ret = NXT_OK
GroupsRead(ok) ==
    /\ g_pc = "read"
    /\ GCalled("getgroups(gids)", ok)
    /\ IF ok
       THEN /\ g_uc' = [g_uc EXCEPT !.gids = SortedSeq(g_id.groups),
                                !.gids_filled = TRUE,
                                !.ngroups = Cardinality(g_id.groups)]
            /\ g_ngroups' = Cardinality(g_id.groups)
            /\ g_ret' = NXT_OK
       ELSE /\ g_ngroups' = -1
            /\ UNCHANGED <<g_uc, g_ret>>
    /\ g_pc' = "restore"
    /\ UNCHANGED <<g_in, g_id, g_groups0, g_saved>>
    /\ UNCHANGED notCred

\* A faulty restore that keeps the earlier result when setgroups fails.
GroupsRestoreKeepRet(ok) ==
    /\ g_pc = "restore"
    /\ GCalled("setgroups(saved)", ok)
    /\ g_id' = IF ok
               THEN [g_id EXCEPT !.groups = SeqSet(SubSeq(g_saved.list, 1,
                                                          g_saved.n))]
               ELSE g_id
    /\ g_pc' = "fail"
    /\ UNCHANGED <<g_in, g_uc, g_groups0, g_saved, g_ngroups, g_ret>>
    /\ UNCHANGED notCred

\* restore: setgroups(nsaved, saved)
GroupsRestore(ok) ==
    /\ g_pc = "restore"
    /\ GCalled("setgroups(saved)", ok)
    /\ IF ok
       THEN /\ g_id' = [g_id EXCEPT !.groups = SeqSet(SubSeq(g_saved.list, 1,
                                                             g_saved.n))]
            /\ UNCHANGED g_ret
       ELSE /\ g_ret' = NXT_ERROR
            /\ UNCHANGED g_id
    /\ g_pc' = "fail"
    /\ UNCHANGED <<g_in, g_uc, g_groups0, g_saved, g_ngroups>>
    /\ UNCHANGED notCred

\* fail: nxt_free(saved); return ret
GroupsReturn ==
    /\ g_pc = "fail"
    /\ g_pc' = "returned"
    /\ UNCHANGED <<g_in, g_uc, g_id, g_groups0, g_saved, g_ngroups, g_ret,
                   g_trace>>
    /\ UNCHANGED notCred

CredNext ==
    \/ \E ok \in BOOLEAN : CredGetpwnam(ok)
    \/ \E ok \in BOOLEAN : CredGetgrnam(ok)
    \/ \E ok, mem \in BOOLEAN : GroupsCount(ok, mem)
    \/ \E ok \in BOOLEAN : GroupsSave(ok)
    \/ \E ok \in BOOLEAN : GroupsInitgroups(ok)
    \/ \E ok, mem \in BOOLEAN : GroupsCountTarget(ok, mem)
    \/ \E ok \in BOOLEAN : GroupsRead(ok)
    \/ \E ok \in BOOLEAN : GroupsRestore(ok)
    \/ GroupsReturn

----------------------------------------------------------------------------
(***************************************************************************)
(* The registry of connected ports of a process record:                    *)
(* nxt_process_connected_port_add, _remove and _find, called by several    *)
(* threads.  A thread takes one step per statement of the function it is   *)
(* in; nxt_thread_mutex_lock blocks while another thread holds the mutex.  *)
(***************************************************************************)
\* the threads that use the registries
Threads == {1, 2}
\* the process records whose registries the threads work on
RegProcs == {1, 2}
\* ports by their key (pid, port id)
RegPorts == {<<7, 0>>, <<7, 1>>}
NoThread == 0
NullPool == 0
RegOps == {"add", "remove", "find"}
IdleOp == [op |-> "none", proc |-> 1, port |-> <<7, 0>>]
\* positions between nxt_thread_mutex_lock and nxt_thread_mutex_unlock
Critical == {"add_pool", "add_hash", "remove_pool", "remove_hash",
             "find_hash", "unlock"}

RegInit ==
    /\ cp_mutex = [p \in RegProcs |-> NoThread]
    /\ cp_mem_pool = [p \in RegProcs |-> NullPool]
    /\ connected_ports = [p \in RegProcs |-> {}]
    /\ pools_created = [p \in RegProcs |-> 0]
    /\ calls = 0
    /\ t_pc = [t \in Threads |-> "idle"]
    /\ t_op = [t \in Threads |-> IdleOp]
    /\ t_res = [t \in Threads |-> {}]
    /\ last_mod = [p \in RegProcs |-> [k \in RegPorts |-> "none"]]

\* nxt_port_hash_add(&process->connected_ports, mp, port)
PortHashAdd(hash, port) == hash \cup {port}
\* nxt_port_hash_remove(&process->connected_ports, mp, port)
PortHashRemove(hash, port) == hash \ {port}
\* nxt_port_hash_find(&process->connected_ports, pid, port_id): the port
\* with that key, or NULL (the empty set)
PortHashFind(hash, pid, port_id) ==
    {q \in hash : q[1] = pid /\ q[2] = port_id}

\* a thread calls one of the three functions
RegCall(t, op, p, port) ==
    /\ t_pc[t] = "idle"
    /\ calls < MaxCalls
    /\ calls' = calls + 1
    /\ t_op' = [t_op EXCEPT ![t] = [op |-> op, proc |-> p, port |-> port]]
    /\ t_pc' = [t_pc EXCEPT ![t] = "lock"]
    /\ t_res' = [t_res EXCEPT ![t] = {}]
    /\ UNCHANGED <<cp_mutex, cp_mem_pool, connected_ports, pools_created,
                   last_mod>>
    /\ UNCHANGED notReg

\* A faulty lock that does not wait for the holder.
RegLockNoWait(t) ==
    /\ t_pc[t] = "lock"
    /\ cp_mutex' = [cp_mutex EXCEPT ![t_op[t].proc] = t]
    /\ t_pc' = [t_pc EXCEPT ![t] =
                  CASE t_op[t].op = "add" -> "add_pool"
                    [] t_op[t].op = "remove" -> "remove_pool"
                    [] OTHER -> "find_hash"]
    /\ UNCHANGED <<cp_mem_pool, connected_ports, pools_created, calls,
                   t_op, t_res, last_mod>>
    /\ UNCHANGED notReg

\* nxt_thread_mutex_lock(&process->cp_mutex)
RegLock(t) ==
    /\ t_pc[t] = "lock"
    /\ cp_mutex[t_op[t].proc] = NoThread
    /\ cp_mutex' = [cp_mutex EXCEPT ![t_op[t].proc] = t]
    /\ t_pc' = [t_pc EXCEPT ![t] =
                  CASE t_op[t].op = "add" -> "add_pool"
                    [] t_op[t].op = "remove" -> "remove_pool"
                    [] OTHER -> "find_hash"]
    /\ UNCHANGED <<cp_mem_pool, connected_ports, pools_created, calls,
                   t_op, t_res, last_mod>>
    /\ UNCHANGED notReg

\* A faulty add that creates a pool on every call.
RegAddPoolAlways(t) ==
    LET p == t_op[t].proc IN
    /\ t_pc[t] = "add_pool"
    /\ cp_mem_pool' = [cp_mem_pool EXCEPT ![p] = pools_created[p] + 1]
    /\ pools_created' = [pools_created EXCEPT ![p] = @ + 1]
    /\ t_pc' = [t_pc EXCEPT ![t] = "add_hash"]
    /\ UNCHANGED <<cp_mutex, connected_ports, calls, t_op, t_res, last_mod>>
    /\ UNCHANGED notReg

\* add: if (process->cp_mem_pool == NULL) cp_mem_pool = nxt_mp_create();
\* nxt_mp_thread_adopt(process->cp_mem_pool)
RegAddPool(t) ==
    LET p == t_op[t].proc IN
    /\ t_pc[t] = "add_pool"
    /\ IF cp_mem_pool[p] = NullPool
       THEN /\ cp_mem_pool' = [cp_mem_pool EXCEPT ![p] = pools_created[p] + 1]
            /\ pools_created' = [pools_created EXCEPT ![p] = @ + 1]
       ELSE UNCHANGED <<cp_mem_pool, pools_created>>
    /\ t_pc' = [t_pc EXCEPT ![t] = "add_hash"]
    /\ UNCHANGED <<cp_mutex, connected_ports, calls, t_op, t_res, last_mod>>
    /\ UNCHANGED notReg

\* add: nxt_port_hash_add(&process->connected_ports, cp_mem_pool, port)
RegAddHash(t) ==
    LET p == t_op[t].proc IN
    /\ t_pc[t] = "add_hash"
    /\ connected_ports' = [connected_ports EXCEPT
                             ![p] = PortHashAdd(@, t_op[t].port)]
    /\ t_pc' = [t_pc EXCEPT ![t] = "unlock"]
    /\ UNCHANGED <<cp_mutex, cp_mem_pool, pools_created, calls, t_op,
                   t_res, last_mod>>
    /\ UNCHANGED notReg

\* A faulty remove that creates the pool when there is none, as add does.
RegRemovePoolCreates(t) ==
    LET p == t_op[t].proc IN
    /\ t_pc[t] = "remove_pool"
    /\ IF cp_mem_pool[p] = NullPool
       THEN /\ cp_mem_pool' = [cp_mem_pool EXCEPT ![p] = pools_created[p] + 1]
            /\ pools_created' = [pools_created EXCEPT ![p] = @ + 1]
       ELSE UNCHANGED <<cp_mem_pool, pools_created>>
    /\ t_pc' = [t_pc EXCEPT ![t] = "remove_hash"]
    /\ UNCHANGED <<cp_mutex, connected_ports, calls, t_op, t_res, last_mod>>
    /\ UNCHANGED notReg

\* A faulty test that removes only when no pool exists.
RegRemovePoolInverted(t) ==
    LET p == t_op[t].proc IN
    /\ t_pc[t] = "remove_pool"
    /\ t_pc' = [t_pc EXCEPT ![t] = IF cp_mem_pool[p] = NullPool
                                   THEN "remove_hash" ELSE "unlock"]
    /\ UNCHANGED <<cp_mutex, cp_mem_pool, connected_ports,
                   pools_created, calls, t_op, t_res, last_mod>>
    /\ UNCHANGED notReg

\* remove: if (process->cp_mem_pool != NULL) nxt_mp_thread_adopt(...)
RegRemovePool(t) ==
    LET p == t_op[t].proc IN
    /\ t_pc[t] = "remove_pool"
    /\ IF cp_mem_pool[p] # NullPool
       THEN t_pc' = [t_pc EXCEPT ![t] = "remove_hash"]
       ELSE t_pc' = [t_pc EXCEPT ![t] = "unlock"]
    /\ UNCHANGED <<cp_mutex, cp_mem_pool, connected_ports, pools_created, calls,
                   t_op, t_res, last_mod>>
    /\ UNCHANGED notReg

\* remove: nxt_port_hash_remove(&process->connected_ports, cp_mem_pool, port)
RegRemoveHash(t) ==
    LET p == t_op[t].proc IN
    /\ t_pc[t] = "remove_hash"
    /\ connected_ports' = [connected_ports EXCEPT
                             ![p] = PortHashRemove(@, t_op[t].port)]
    /\ t_pc' = [t_pc EXCEPT ![t] = "unlock"]
    /\ UNCHANGED <<cp_mutex, cp_mem_pool, pools_created, calls, t_op,
                   t_res, last_mod>>
    /\ UNCHANGED notReg

\* find: res = nxt_port_hash_find(&process->connected_ports, pid, port_id)
RegFindHash(t) ==
    LET p == t_op[t].proc IN
    /\ t_pc[t] = "find_hash"
    /\ t_res' = [t_res EXCEPT ![t] = PortHashFind(connected_ports[p],
                                                  t_op[t].port[1],
                                                  t_op[t].port[2])]
    /\ t_pc' = [t_pc EXCEPT ![t] = "unlock"]
    /\ UNCHANGED <<cp_mutex, cp_mem_pool, connected_ports,
                   pools_created, calls, t_op, last_mod>>
    /\ UNCHANGED notReg

\* nxt_thread_mutex_unlock(&process->cp_mutex), and the return; last_mod
\* notes the add or remove that has completed
RegUnlock(t) ==
    LET p == t_op[t].proc IN
    /\ t_pc[t] = "unlock"
    /\ cp_mutex' = [cp_mutex EXCEPT ![p] = NoThread]
    /\ last_mod' = IF t_op[t].op \in {"add", "remove"}
                   THEN [last_mod EXCEPT ![p][t_op[t].port] = t_op[t].op]
                   ELSE last_mod
    /\ t_pc' = [t_pc EXCEPT ![t] = "idle"]
    /\ t_op' = [t_op EXCEPT ![t] = IdleOp]
    /\ t_res' = [t_res EXCEPT ![t] = {}]
    /\ UNCHANGED <<cp_mem_pool, connected_ports, pools_created, calls>>
    /\ UNCHANGED notReg

\* the steps of thread t inside a call
RegStep(t) ==
    \/ RegAddPool(t)
    \/ RegAddHash(t)
    \/ RegRemovePool(t)
    \/ RegRemoveHash(t)
    \/ RegFindHash(t)
    \/ RegUnlock(t)

RegNext ==
    \/ \E t \in Threads, op \in RegOps, p \in RegProcs, port \in RegPorts :
         RegCall(t, op, p, port)
    \/ \E t \in Threads : RegLock(t)
    \/ \E t \in Threads : RegStep(t)

----------------------------------------------------------------------------
(***************************************************************************)
(* Exec path: nxt_process_execute, built either on posix_spawn() or on     *)
(* vfork() and execve().  One caller makes the calls one after another.    *)
(***************************************************************************)
ExecError == -1
\* pids the platform may give to the children
ExecPids == 1..(MaxExec + 1)

ExecInit ==
    /\ x_posix_spawn \in BOOLEAN
    /\ x_pc = "idle"
    /\ x_exists = FALSE
    /\ x_pid = 0
    /\ x_children = [pid \in {} |-> "none"]
    /\ x_results = <<>>

\* the exec group at rest, for the specifications of the other parts
ExecIdle ==
    /\ x_posix_spawn = TRUE
    /\ x_pc = "idle"
    /\ x_exists = FALSE
    /\ x_pid = 0
    /\ x_children = [pid \in {} |-> "none"]
    /\ x_results = <<>>

\* the children with one more, pid, in state st
WithChild(pid, st) ==
    [q \in DOMAIN x_children \cup {pid} |->
        IF q = pid THEN st ELSE x_children[q]]

\* the return of nxt_process_execute to its caller
ExecReturned(created, ret) ==
    x_results' = Append(x_results, [exists |-> x_exists, created |-> created,
                                    ret |-> ret])

\* nxt_process_execute(task, name, argv, envp) is called; the file `name`
\* exists or not
ExecCall(exists) ==
    /\ x_pc = "idle"
    /\ Len(x_results) < MaxExec
    /\ x_exists' = exists
    /\ x_pc' = IF x_posix_spawn THEN "posix_spawn" ELSE "vfork"
    /\ UNCHANGED <<x_posix_spawn, x_pid, x_children, x_results>>
    /\ UNCHANGED notExec

\* NXT_HAVE_POSIX_SPAWN: posix_spawn() returns an error, and then no child
\* exists and -1 is returned; or it returns 0 and the pid of a child.  For
\* a file that does not exist the platform either returns the error or
\* creates a child that exits with status 127.
ExecPosixSpawn(ok, pid) ==
    /\ x_pc = "posix_spawn"
    /\ pid \in ExecPids \ DOMAIN x_children
    /\ IF ok
       THEN /\ x_children' = WithChild(pid, IF x_exists THEN "image"
                                            ELSE "exited 127")
            /\ ExecReturned(TRUE, pid)
       ELSE /\ ExecReturned(FALSE, ExecError)
            /\ UNCHANGED x_children
    /\ x_pc' = "idle"
    /\ UNCHANGED <<x_posix_spawn, x_exists, x_pid>>
    /\ UNCHANGED notExec

\* pid = vfork(): case -1 returns it; otherwise the child runs first, in
\* the memory of the caller, which waits for the execve or the exit
ExecVfork(ok, pid) ==
    /\ x_pc = "vfork"
    /\ pid \in ExecPids \ DOMAIN x_children
    /\ IF ok
       THEN /\ x_children' = WithChild(pid, "vforked")
            /\ x_pid' = pid
            /\ x_pc' = "execve"
            /\ UNCHANGED x_results
       ELSE /\ ExecReturned(FALSE, ExecError)
            /\ x_pc' = "idle"
            /\ UNCHANGED <<x_children, x_pid>>
    /\ UNCHANGED <<x_posix_spawn, x_exists>>
    /\ UNCHANGED notExec

\* A faulty child that goes on in the code of the caller when execve fails.
ExecChildExecveNoExit(ok) ==
    /\ x_pc = "execve"
    /\ ok => x_exists
    /\ x_children' = [x_children EXCEPT ![x_pid] = IF ok THEN "image"
                                                  ELSE "vforked"]
    /\ x_pc' = "parent"
    /\ UNCHANGED <<x_posix_spawn, x_exists, x_pid, x_results>>
    /\ UNCHANGED notExec

\* case 0: execve(name, argv, envp); when it returns, it failed: exit(1)
ExecChildExecve(ok) ==
    /\ x_pc = "execve"
    /\ ok => x_exists
    /\ x_children' = [x_children EXCEPT ![x_pid] = IF ok THEN "image"
                                                  ELSE "exited 1"]
    /\ x_pc' = "parent"
    /\ UNCHANGED <<x_posix_spawn, x_exists, x_pid, x_results>>
    /\ UNCHANGED notExec

\* default: the parent goes on after vfork() and returns pid
ExecParentReturn ==
    /\ x_pc = "parent"
    /\ ExecReturned(TRUE, x_pid)
    /\ x_pc' = "idle"
    /\ UNCHANGED <<x_posix_spawn, x_exists, x_pid, x_children>>
    /\ UNCHANGED notExec

ExecNext ==
    \/ \E exists \in BOOLEAN : ExecCall(exists)
    \/ \E ok \in BOOLEAN, pid \in ExecPids : ExecPosixSpawn(ok, pid)
    \/ \E ok \in BOOLEAN, pid \in ExecPids : ExecVfork(ok, pid)
    \/ \E ok \in BOOLEAN : ExecChildExecve(ok)
    \/ ExecParentReturn

----------------------------------------------------------------------------
(***************************************************************************)
(* nxt_process_daemon.  After fork() the parent only exits; the child runs *)
(* the rest of the function.  Every system call may fail.                  *)
(***************************************************************************)
STDIN_FILENO == 0
STDOUT_FILENO == 1
STDERR_FILENO == 2
NoFd == -1
Fds == 0..MaxFd

\* the pid of the calling process and of its child
DaemonParentPid == 10
DaemonChildPid == 11

\* the descriptors the caller may have: each one closed or on the terminal
DaemonInit ==
    /\ d_pc = "fork"
    /\ d_parent = "none"
    /\ d_parent_exit = NotExited
    /\ d_session = FALSE
    /\ d_umask \in {18, 63}
    /\ d_fds \in [Fds -> {"closed", "tty"}]
    /\ d_fd = NoFd
    /\ d_ids = [nxt_pid |-> DaemonParentPid, tid |-> 1]
    /\ d_ret = NXT_OK
    /\ d_trace = <<>>

\* the daemon group at rest, for the specifications of the other parts
DaemonIdle ==
    /\ d_pc = "fork"
    /\ d_parent = "none"
    /\ d_parent_exit = NotExited
    /\ d_session = FALSE
    /\ d_umask = 18
    /\ d_fds = [n \in Fds |-> "tty"]
    /\ d_fd = NoFd
    /\ d_ids = [nxt_pid |-> DaemonParentPid, tid |-> 1]
    /\ d_ret = NXT_OK
    /\ d_trace = <<>>

DCalled(name, ok) == d_trace' = Append(d_trace, <<name, ok>>)

\* open(): the lowest descriptor that is not in use
LowestFree(fds) ==
    CHOOSE n \in Fds : fds[n] = "closed" /\ \A m \in Fds : m < n => fds[m] # "closed"

\* pid = fork(): case -1 goes to fail and returns NXT_ERROR; on success
\* the child leaves the switch and the parent is left to exit
DaemonFork(ok) ==
    /\ d_pc = "fork"
    /\ IF ok
       THEN /\ d_parent' = "forked"
            /\ d_pc' = "setsid"
            /\ UNCHANGED d_ret
       ELSE /\ d_ret' = NXT_ERROR
            /\ d_pc' = "returned"
            /\ UNCHANGED d_parent
    /\ UNCHANGED <<d_parent_exit, d_session, d_umask, d_fds, d_fd, d_ids,
                   d_trace>>
    /\ UNCHANGED notDaemon

\* default: exit(0) in the parent
DaemonParentExit ==
    /\ d_parent = "forked"
    /\ d_parent' = "exited"
    /\ d_parent_exit' = 0
    /\ UNCHANGED <<d_pc, d_session, d_umask, d_fds, d_fd, d_ids, d_ret,
                   d_trace>>
    /\ UNCHANGED notDaemon

\* nxt_pid = getpid(); task->thread->tid = 0; setsid()
DaemonSetsid(ok) ==
    /\ d_pc = "setsid"
    /\ d_ids' = [nxt_pid |-> DaemonChildPid, tid |-> 0]
    /\ DCalled("setsid", ok)
    /\ IF ok
       THEN d_session' = TRUE /\ d_pc' = "umask" /\ UNCHANGED d_ret
       ELSE d_ret' = NXT_ERROR /\ d_pc' = "returned" /\ UNCHANGED d_session
    /\ UNCHANGED <<d_parent, d_parent_exit, d_umask, d_fds, d_fd>>
    /\ UNCHANGED notDaemon

\* umask(0)
DaemonUmask ==
    /\ d_pc = "umask"
    /\ d_umask' = 0
    /\ DCalled("umask", TRUE)
    /\ d_pc' = "open"
    /\ UNCHANGED <<d_parent, d_parent_exit, d_session, d_fds, d_fd, d_ids,
                   d_ret>>
    /\ UNCHANGED notDaemon

\* fd = open("/dev/null", O_RDWR)
DaemonOpen(ok) ==
    /\ d_pc = "open"
    /\ ok => \E n \in Fds : d_fds[n] = "closed"
    /\ DCalled("open", ok)
    /\ IF ok
       THEN /\ d_fd' = LowestFree(d_fds)
            /\ d_fds' = [d_fds EXCEPT ![LowestFree(d_fds)] = "null"]
            /\ d_pc' = "dup2_stdin"
            /\ UNCHANGED d_ret
       ELSE /\ d_fd' = NoFd
            /\ d_ret' = NXT_ERROR
            /\ d_pc' = "returned"
            /\ UNCHANGED d_fds
    /\ UNCHANGED <<d_parent, d_parent_exit, d_session, d_umask, d_ids>>
    /\ UNCHANGED notDaemon

\* dup2(fd, std) at position `at`: std becomes what fd is
DaemonDup2(at, name, std, ok, next) ==
    /\ d_pc = at
    /\ DCalled(name, ok)
    /\ IF ok
       THEN /\ d_fds' = [d_fds EXCEPT ![std] = d_fds[d_fd]]
            /\ d_pc' = next
            /\ UNCHANGED d_ret
       ELSE /\ d_ret' = NXT_ERROR
            /\ d_pc' = "returned"
            /\ UNCHANGED d_fds
    /\ UNCHANGED <<d_parent, d_parent_exit, d_session, d_umask, d_fd, d_ids>>
    /\ UNCHANGED notDaemon

\* dup2(fd, STDIN_FILENO)
DaemonDupStdin(ok) ==
    DaemonDup2("dup2_stdin", "dup2(stdin)", STDIN_FILENO, ok, "dup2_stdout")

\* dup2(fd, STDOUT_FILENO)
DaemonDupStdout(ok) ==
    DaemonDup2("dup2_stdout", "dup2(stdout)", STDOUT_FILENO, ok, "close")

\* A faulty end that closes fd whatever its number.
DaemonCloseAlways ==
    /\ d_pc = "close"
    /\ d_fds' = [d_fds EXCEPT ![d_fd] = "closed"]
    /\ DCalled("close", TRUE)
    /\ d_ret' = NXT_OK
    /\ d_pc' = "returned"
    /\ UNCHANGED <<d_parent, d_parent_exit, d_session, d_umask, d_fd, d_ids>>
    /\ UNCHANGED notDaemon

\* if (fd > STDERR_FILENO) nxt_fd_close(fd); return NXT_OK
DaemonClose ==
    /\ d_pc = "close"
    /\ IF d_fd > STDERR_FILENO
       THEN /\ d_fds' = [d_fds EXCEPT ![d_fd] = "closed"]
            /\ DCalled("close", TRUE)
       ELSE UNCHANGED <<d_fds, d_trace>>
    /\ d_ret' = NXT_OK
    /\ d_pc' = "returned"
    /\ UNCHANGED <<d_parent, d_parent_exit, d_session, d_umask, d_fd, d_ids>>
    /\ UNCHANGED notDaemon

DaemonNext ==
    \/ \E ok \in BOOLEAN : DaemonFork(ok)
    \/ DaemonParentExit
    \/ \E ok \in BOOLEAN : DaemonSetsid(ok)
    \/ DaemonUmask
    \/ \E ok \in BOOLEAN : DaemonOpen(ok)
    \/ \E ok \in BOOLEAN : DaemonDupStdin(ok)
    \/ \E ok \in BOOLEAN : DaemonDupStdout(ok)
    \/ DaemonClose

----------------------------------------------------------------------------
(***************************************************************************)
(* Specifications.                                                         *)
(***************************************************************************)
\* each part starts with the other parts at rest
InitPorts ==
    PortsInit /\ ForkIdle /\ CredIdle /\ RegInit /\ ExecIdle /\ DaemonIdle
InitFork ==
    ForkInit /\ PortsInit /\ CredIdle /\ RegInit /\ ExecIdle /\ DaemonIdle
InitBoot ==
    BootInit /\ PortsInit /\ CredIdle /\ RegInit /\ ExecIdle /\ DaemonIdle
InitCred ==
    CredInit /\ PortsInit /\ ForkIdle /\ RegInit /\ ExecIdle /\ DaemonIdle
InitReg ==
    RegInit /\ PortsInit /\ ForkIdle /\ CredIdle /\ ExecIdle /\ DaemonIdle
InitExec ==
    ExecInit /\ PortsInit /\ ForkIdle /\ CredIdle /\ RegInit /\ DaemonIdle
InitDaemon ==
    DaemonInit /\ PortsInit /\ ForkIdle /\ CredIdle /\ RegInit /\ ExecIdle

PortsSpec == InitPorts /\ [][PortsNext]_vars

ForkSpec == InitFork /\ [][ForkNext]_vars

BootSpec == InitBoot /\ [][ForkNext]_vars

CredSpec == InitCred /\ [][CredNext]_vars

RegSpec == InitReg /\ [][RegNext]_vars

ExecSpec == InitExec /\ [][ExecNext]_vars

DaemonSpec == InitDaemon /\ [][DaemonNext]_vars

\* the scheduler lets every thread run, and a thread that keeps finding
\* the mutex free now and then does get it
RegFairSpec ==
    /\ RegSpec
    /\ \A t \in Threads : WF_vars(RegStep(t)) /\ SF_vars(RegLock(t))

----------------------------------------------------------------------------
(***************************************************************************)
(* Claims.                                                                 *)
(***************************************************************************)

\* C1 (as stated): a record with N ports attached is removed exactly when
\* the Nth cleanup fires: a removed record has no attached port whose
\* cleanup is still pending, and the removal happens at most once.
C1_RemovedAtNthCleanupOnce ==
    \A p \in Records :
        /\ remove_calls[p] <= 1
        /\ p \notin processes => Pending(p) = {}

\* C1 (amended): the removal is called exactly in the steps in which a
\* cleanup callback brings port_cleanups from one to zero, the record
\* leaves the table in the first such step, and it is in the table as long
\* as no such step has happened.
C1_RemovedWhenCountDrains ==
    /\ [](\A p \in Records : p \in processes <=> remove_calls[p] = 0)
    /\ [][\A p \in Records :
            /\ remove_calls'[p] # remove_calls[p]
                 <=> (port_cleanups[p] = 1 /\ port_cleanups'[p] = 0)
            /\ remove_calls'[p] # remove_calls[p]
                 => /\ remove_calls'[p] = remove_calls[p] + 1
                    /\ Pending(p)' = {}
                    /\ p \notin processes']_vars

\* a record with two ports attached has been removed by the second cleanup
C1_Witness ==
    \E p \in Records :
        /\ Cardinality(Attached(p)) >= 2
        /\ Pending(p) = {}
        /\ p \notin processes
        /\ remove_calls[p] = 1

\* ---- helpers over the calls recorded in c_trace ----
Failed(name) == \E i \in DOMAIN c_trace : c_trace[i] = <<name, FALSE>>
Made(name) == \E i \in DOMAIN c_trace : c_trace[i][1] = name
CredCalls == {"setgid", "setgroups", "initgroups", "setuid"}
ChildFailing == c_pc \in {"fail", "exited"}

\* C2 (as stated): when engine rebind, thread pool creation, the entry
\* point or the ready-notification send has failed, the exited child has a
\* non-zero status and has never enabled its port.
C2_NoEnableOnAnyFailure ==
    (/\ c_pc = "exited"
     /\ \/ Failed("nxt_service_get")
        \/ Failed("nxt_event_engine_change")
        \/ Failed("nxt_runtime_thread_pool_create")
        \/ Failed("init->start")
        \/ Failed("nxt_port_socket_write"))
    => /\ c_exit # 0
       /\ ~c_ports.port_enabled
       /\ ~Made("nxt_port_enable")

\* C2 (amended): a failed bootstrap call is the last call the child makes
\* and the child exits with status 1; after a failed engine rebind, thread
\* pool creation or entry point the port was never enabled; after a failed
\* ready-notification send the port had already been enabled.
C2_NoEnableBeforeEntryFailure ==
    /\ c_pc = "exited" => c_exit = 1
    /\ c_pc # "exited" => c_exit = NotExited
    /\ \A i \in DOMAIN c_trace :
         ~c_trace[i][2] => i = Len(c_trace) /\ ChildFailing
    /\ (\/ Failed("nxt_service_get")
        \/ Failed("nxt_event_engine_change")
        \/ Failed("nxt_runtime_thread_pool_create")
        \/ Failed("init->start"))
       => ~c_ports.port_enabled /\ ~Made("nxt_port_enable")
    /\ Failed("nxt_port_socket_write")
       => c_ports.port_enabled /\ c_sent = <<>>

\* the child has exited after a failed engine rebind
C2_Witness ==
    /\ c_pc = "exited"
    /\ c_exit = 1
    /\ Failed("nxt_event_engine_change")
    /\ ~c_ports.port_enabled

\* C3: when the bootstrap starts, the table of the child holds no record
\* that was not ready at the fork, holds every record that was ready at
\* the fork with both directions of bulk mappings released, and holds the
\* child's own record, which is not ready and was not in the table before.
C3_ChildTablePruned ==
    c_pc = "start" =>
        /\ \A r \in pre_table :
             ~r.ready => \A x \in c_table : x.pid # r.pid
        /\ \A r \in pre_table :
             r.ready => /\ MmapsDestroy(r) \in c_table
                        /\ \A x \in c_table :
                             x.pid = r.pid => ~x.incoming /\ ~x.outgoing
        /\ c_process \in c_table
        /\ ~c_process.ready
        /\ c_process.pid = p_ret
        /\ c_process.pid = c_rt.nxt_pid
        /\ c_table = {MmapsDestroy(r) : r \in {x \in pre_table : x.ready}}
                       \cup {c_process}
        /\ Cardinality(c_table)
             = Cardinality({x \in pre_table : x.ready}) + 1

\* the bootstrap starts in a child that inherited a not-ready record and a
\* ready record with mappings in both directions
C3_Witness ==
    /\ c_pc = "start"
    /\ \E r \in pre_table : ~r.ready
    /\ \E r \in pre_table : r.ready /\ r.incoming /\ r.outgoing

\* C4: when nxt_process_create has returned in the parent, after a
\* successful fork the table is the pre-fork table plus exactly one record,
\* with the pid of the child and not ready; after a failed fork the table
\* is the pre-fork table, no child exists and the failure is returned.
C4_ParentTable ==
    /\ p_pc \in {"fork", "parent"} => p_table = pre_table
    /\ p_pc = "returned" =>
         IF p_ret = ForkFailed
         THEN p_table = pre_table /\ c_pc = "none"
         ELSE /\ p_ret > 0
              /\ \A r \in pre_table : r.pid # p_ret
              /\ p_table = pre_table
                             \cup {ProcessRecord(p_ret, FALSE, FALSE, FALSE)}
              /\ Cardinality(p_table) = Cardinality(pre_table) + 1
              /\ p_process.pid = p_ret /\ ~p_process.ready
              /\ c_pc # "none"

\* the parent has returned the pid of a child, with a non-empty table
C4_Witness ==
    /\ p_pc = "returned"
    /\ p_ret > 0
    /\ pre_table # {}
    /\ Cardinality(p_table) = Cardinality(pre_table) + 1

\* C5: nxt_user_cred_set calls setgid first, then setgroups (uc->gids not
\* NULL) or initgroups (uc->gids NULL), then setuid; each call is made only
\* after the calls before it succeeded, a failed call is the last one and
\* makes the switch fail, and after the three calls the identity is the
\* credential's.
C5_CredSetOrder ==
    LET uc == init.user_cred
        groupCall == IF uc.gids_null THEN "initgroups" ELSE "setgroups"
    IN
    /\ \A i \in DOMAIN c_trace :
         /\ c_trace[i][1] = "setgid" => i = 1
         /\ c_trace[i][1] \in {"setgroups", "initgroups"}
              => /\ i = 2
                 /\ c_trace[1] = <<"setgid", TRUE>>
                 /\ c_trace[i][1] = groupCall
         /\ c_trace[i][1] = "setuid"
              => /\ i = 3
                 /\ c_trace[1] = <<"setgid", TRUE>>
                 /\ c_trace[2] = <<groupCall, TRUE>>
         /\ (c_trace[i][1] \in CredCalls /\ ~c_trace[i][2])
              => i = Len(c_trace) /\ ChildFailing
    /\ <<"setuid", TRUE>> \in {c_trace[i] : i \in DOMAIN c_trace}
         => /\ c_id.uid = uc.uid
            /\ c_id.gid = uc.base_gid
            /\ c_id.groups = IF uc.gids_null
                             THEN InitgroupsSet(uc.user, uc.base_gid)
                             ELSE GidSet(uc.gids, uc.ngroups)
    /\ (Made("setgid") /\ ~Made("setuid")) => c_id.uid = p_id.uid

\* a credential whose list of supplementary groups is present and empty
\* has been applied: setgid, setgroups with no group, setuid
C5_Witness ==
    /\ ~init.user_cred.null
    /\ ~init.user_cred.gids_null
    /\ init.user_cred.ngroups = 0
    /\ Len(c_trace) >= 3
    /\ c_trace[1] = <<"setgid", TRUE>>
    /\ c_trace[2] = <<"setgroups", TRUE>>
    /\ c_trace[3] = <<"setuid", TRUE>>
    /\ c_id.groups = {}
    /\ c_id.uid = init.user_cred.uid

\* ---- helpers over the calls recorded in g_trace ----
GMade(name, ok) == \E i \in DOMAIN g_trace : g_trace[i] = <<name, ok>>

\* C6 (as stated): whatever the outcome, when the call has returned the
\* supplementary groups of the resolving process are what they were before.
C6_OwnGroupsAlwaysRestored ==
    g_pc = "returned" => g_id.groups = g_groups0

\* C6 (amended): when the call has returned the supplementary groups of
\* the resolving process are what they were before, unless initgroups
\* succeeded and the restoring setgroups failed: then the call returns
\* NXT_ERROR and the process is left with the groups of the target user.
C6_OwnGroupsRestoredUnlessRestoreFails ==
    g_pc = "returned" =>
        IF GMade("initgroups", TRUE) /\ GMade("setgroups(saved)", FALSE)
        THEN /\ g_id.groups = InitgroupsSet(g_uc.user, g_uc.base_gid)
             /\ g_ret = NXT_ERROR
        ELSE g_id.groups = g_groups0

\* a resolution as super-user has succeeded for a user whose groups differ
\* from the resolver's, which has its own groups back
C6_Witness ==
    /\ g_pc = "returned"
    /\ g_ret = NXT_OK
    /\ GMade("initgroups", TRUE)
    /\ GMade("setgroups(saved)", TRUE)
    /\ InitgroupsSet(g_uc.user, g_uc.base_gid) # g_groups0
    /\ g_groups0 # {}
    /\ g_id.groups = g_groups0

\* C7: a find made when the last completed add or remove of its key was an
\* add returns that port; a find made when it was a remove returns NULL.
C7_FindSeesLastCompletedChange ==
    \A t \in Threads :
        (t_pc[t] = "unlock" /\ t_op[t].op = "find") =>
            LET last == last_mod[t_op[t].proc][t_op[t].port] IN
            /\ last = "add" => t_res[t] = {t_op[t].port}
            /\ last = "remove" => t_res[t] = {}

\* a find has found a port that was added, while another thread waits to
\* remove the same port from the same registry
C7_Witness ==
    \E t, u \in Threads :
        /\ t_pc[t] = "unlock" /\ t_op[t].op = "find"
        /\ t_res[t] = {t_op[t].port}
        /\ last_mod[t_op[t].proc][t_op[t].port] = "add"
        /\ t_pc[u] = "lock" /\ t_op[u].op = "remove"
        /\ t_op[u].proc = t_op[t].proc /\ t_op[u].port = t_op[t].port

\* the mutex of a registry is held by exactly the thread that is between
\* its lock and its unlock; no two threads are there for one registry
MutexHeld ==
    /\ \A t \in Threads :
         t_pc[t] \in Critical => cp_mutex[t_op[t].proc] = t
    /\ \A p \in RegProcs :
         cp_mutex[p] # NoThread
           => t_pc[cp_mutex[p]] \in Critical /\ t_op[cp_mutex[p]].proc = p
    /\ \A t, u \in Threads :
         (t # u /\ t_pc[t] \in Critical /\ t_pc[u] \in Critical)
           => t_op[t].proc # t_op[u].proc

\* a thread that waits for a free mutex can take it, whoever holds the
\* mutex of another record
OtherRecordsDoNotExclude ==
    \A t \in Threads :
        (t_pc[t] = "lock" /\ cp_mutex[t_op[t].proc] = NoThread)
          => ENABLED RegLock(t)

\* C8: add, remove and find on one registry exclude each other, the hash
\* table and the pool change only in steps of the holder of the mutex, a
\* returned call holds no mutex, calls on different registries do not
\* exclude each other, and under fair scheduling every call returns.
C8_RegistryMutualExclusion ==
    /\ [](MutexHeld /\ OtherRecordsDoNotExclude)
    /\ [][\A p \in RegProcs :
            (\/ connected_ports'[p] # connected_ports[p]
             \/ cp_mem_pool'[p] # cp_mem_pool[p])
              => /\ cp_mutex[p] # NoThread
                 /\ cp_mutex'[p] = cp_mutex[p]
                 /\ t_pc'[cp_mutex[p]] # t_pc[cp_mutex[p]]]_vars
    /\ \A t \in Threads : (t_pc[t] # "idle") ~> (t_pc[t] = "idle")

\* two threads are inside calls on the registries of two different records
\* at the same time
C8_Witness ==
    \E t, u \in Threads :
        /\ t_pc[t] \in Critical \ {"unlock"}
        /\ t_pc[u] \in Critical \ {"unlock"}
        /\ t_op[t].proc # t_op[u].proc

\* C9 (as stated): on both paths a call returns a valid pid when the file
\* exists and a child was created for it, and returns the error when the
\* file does not exist.
C9_MissingBinaryReturnsError ==
    \A i \in DOMAIN x_results :
        LET r == x_results[i] IN
        /\ (r.exists /\ r.created) => r.ret > 0
        /\ ~r.exists => r.ret = ExecError

\* C9 (amended): a call returns the error exactly when posix_spawn() or
\* vfork() failed, and then no child was created; otherwise it returns the
\* pid of the new child, also when the file does not exist: on the vfork
\* path that child has exited with status 1 by the time the caller goes on.
\* The caller returns from every call.
C9_ErrorOnlyWhenCreationFails ==
    /\ \A i \in DOMAIN x_results :
         LET r == x_results[i] IN
         /\ r.ret = ExecError <=> ~r.created
         /\ r.created =>
              /\ r.ret > 0
              /\ r.ret \in DOMAIN x_children
              /\ \A j \in DOMAIN x_results :
                   x_results[j].ret = r.ret => j = i
              /\ r.exists => x_children[r.ret] \in {"image", "exited 1"}
              /\ (~r.exists /\ ~x_posix_spawn)
                   => x_children[r.ret] = "exited 1"
              /\ (~r.exists /\ x_posix_spawn)
                   => x_children[r.ret] = "exited 127"
    /\ Cardinality(DOMAIN x_children)
         = Cardinality({i \in DOMAIN x_results : x_results[i].created})
             + (IF x_pc \in {"execve", "parent"} THEN 1 ELSE 0)
    /\ x_pc \in {"execve", "parent"} =>
         /\ ~x_posix_spawn
         /\ x_pc = "parent" => x_children[x_pid] \in {"image", "exited 1"}

\* on the vfork path a call for a file that does not exist has returned
\* the pid of a child that exited with status 1
C9_Witness ==
    \E i \in DOMAIN x_results :
        /\ ~x_posix_spawn
        /\ ~x_results[i].exists
        /\ x_results[i].ret > 0
        /\ x_children[x_results[i].ret] = "exited 1"
        /\ x_pc = "idle"

\* C10: the switch is made if and only if a credential is configured and
\* the child runs as super-user, at most once, and it has succeeded before
\* the entry point is called; without it the identity is untouched and a
\* bootstrap that returns has made every remaining call, in order, and has
\* sent one READY message with the stream id of the role.
C10_SwitchIffCredAndRoot ==
    LET want == ~init.user_cred.null /\ p_id.uid = RootUid
        past == c_pc \notin {"none", "child", "prune", "start"}
        invoked == c_pc = "setgid" \/ Made("setgid")
    IN
    /\ invoked <=> (past /\ want)
    /\ Cardinality({i \in DOMAIN c_trace : c_trace[i][1] = "setgid"}) <= 1
    /\ \A i \in DOMAIN c_trace :
         (c_trace[i][1] = "init->start" /\ want)
           => \E j \in 1..(i - 1) : c_trace[j] = <<"setuid", TRUE>>
    /\ ~want =>
         /\ c_pc # "none" => c_id = p_id
         /\ \A i \in DOMAIN c_trace : c_trace[i][1] \notin CredCalls
         /\ c_pc \in {"set_ready", "returned"} =>
              /\ c_trace = << <<"nxt_service_get", TRUE>>,
                              <<"nxt_event_engine_change", TRUE>>,
                              <<"nxt_runtime_thread_pool_create", TRUE>>,
                              <<"init->start", TRUE>>,
                              <<"nxt_port_enable", TRUE>>,
                              <<"nxt_port_socket_write", TRUE>> >>
              /\ c_sent = <<[type |-> "READY", stream |-> init.stream]>>
              /\ c_ports = [main_read |-> FALSE, main_write |-> TRUE,
                            port_write |-> FALSE, port_enabled |-> TRUE]
              /\ c_rt.types = TypeBit(init.type)

\* a role without a credential, started by a caller that is not the
\* super-user, has finished its bootstrap and sent READY
C10_Witness ==
    /\ init.user_cred.null
    /\ p_id.uid # RootUid
    /\ c_pc = "returned"
    /\ c_sent = <<[type |-> "READY", stream |-> init.stream]>>
    /\ ~Made("setgid")

\* the calls of nxt_process_start that come after the privilege switch
LaterCalls == {"nxt_service_get", "nxt_event_engine_change",
               "nxt_runtime_thread_pool_create", "init->start",
               "nxt_port_enable", "nxt_port_socket_write"}

\* C11: when setgid, setgroups/initgroups or setuid fails, the child goes
\* to exit(1) at once: the failed call is the last call it made, no later
\* bootstrap step has run (rt->types is still cleared, the ports are as
\* inherited, nothing was sent), the record is not ready, and the only
\* step left is the exit with status 1.
C11_SwitchFailureExitsAtOnce ==
    (\E name \in CredCalls : Failed(name)) =>
        /\ c_pc \in {"fail", "exited"}
        /\ c_pc = "fail" => (c_exit = NotExited /\ ENABLED StartFail)
        /\ c_pc = "exited" => c_exit = 1
        /\ c_trace[Len(c_trace)][1] \in CredCalls
        /\ c_trace[Len(c_trace)][2] = FALSE
        /\ \A name \in LaterCalls : ~Made(name)
        /\ c_rt.types = 0
        /\ c_ports = [main_read |-> TRUE, main_write |-> FALSE,
                      port_write |-> TRUE, port_enabled |-> FALSE]
        /\ c_sent = <<>>
        /\ ~c_process.ready
        /\ \A r \in c_table : r.pid = c_process.pid => ~r.ready

\* a child that has exited after setuid failed, with the primary group
\* and the supplementary groups already switched
C11_Witness ==
    /\ c_pc = "exited"
    /\ c_exit = 1
    /\ Failed("setuid")
    /\ c_id.gid = init.user_cred.base_gid
    /\ c_id.uid = RootUid
    /\ c_id.gid # p_id.gid

\* C12: process->ready is false in the parent and in the child until the
\* child has come back from nxt_process_start, which it does only after
\* the READY message was written without error; the child returns from
\* nxt_process_create with the record ready, and a child in which a call
\* failed is never ready and never returns.
C12_ReadyOnlyAfterBootstrap ==
    /\ ~p_process.ready
    /\ \A r \in p_table : r.pid = p_process.pid /\ r.pid # 0 => ~r.ready
    /\ c_process.ready =>
         /\ c_pc = "returned"
         /\ c_trace # <<>>
         /\ c_trace[Len(c_trace)] = <<"nxt_port_socket_write", TRUE>>
         /\ c_sent = <<[type |-> "READY", stream |-> init.stream]>>
         /\ \A i \in DOMAIN c_trace : c_trace[i][2]
         /\ c_exit = NotExited
    /\ c_pc = "returned" =>
         /\ c_process.ready
         /\ c_process \in c_table
    /\ (\E i \in DOMAIN c_trace : ~c_trace[i][2]) =>
         /\ c_pc \in {"fail", "exited"}
         /\ ~c_process.ready
         /\ \A r \in c_table : r.pid = c_process.pid => ~r.ready
    /\ c_pc \notin {"none", "child", "prune", "returned"} =>
         (c_process \in c_table /\ ~c_process.ready)

\* the child has returned from nxt_process_create with the record ready,
\* after a privilege switch and the READY message
C12_Witness ==
    /\ c_pc = "returned"
    /\ c_process.ready
    /\ Made("setuid")
    /\ c_sent # <<>>
    /\ p_pc = "returned"

\* C17: a child that completed the bootstrap has in rt->types the bit of
\* its own init->type and no other, whatever rt->types was at the fork;
\* between the reset and the merge it is 0; the parent's rt->types is
\* never changed.
C17_ChildTypesOnlyOwnRole ==
    /\ [](/\ c_pc \in {"set_ready", "returned"}
              => c_rt.types = TypeBit(init.type)
          /\ c_pc \in {"prune", "start", "setgid", "setgroups", "setuid",
                        "types"} => c_rt.types = 0
          /\ c_pc = "child" => c_rt.types = p_rt.types)
    /\ [][p_rt' = p_rt]_vars

\* a child of a parent with three types active has completed the
\* bootstrap
C17_Witness ==
    /\ c_pc = "returned"
    /\ p_rt.types = 7
    /\ init.type = 2
    /\ c_rt.types = 4

\* the entries of g_trace that are calls of `name`
GCalls(name) == {i \in DOMAIN g_trace : g_trace[i][1] = name}

\* C13: once getgroups(nsaved, saved) has filled the saved set,
\* setgroups(nsaved, saved) is called exactly once before the return, as
\* the last call, also when initgroups or a read of the target's groups
\* failed; without a saved set it is never called; NXT_OK is returned only
\* when the list was read and the restore succeeded, and a failed restore
\* gives NXT_ERROR.
C13_RestoreOnceAndDecides ==
    /\ Cardinality(GCalls("setgroups(saved)")) <= 1
    /\ GCalls("setgroups(saved)") # {} => GMade("getgroups(saved)", TRUE)
    /\ (g_pc = "returned" /\ GMade("getgroups(saved)", TRUE)) =>
         /\ Cardinality(GCalls("setgroups(saved)")) = 1
         /\ g_trace[Len(g_trace)][1] = "setgroups(saved)"
         /\ g_ret = NXT_OK <=> /\ GMade("getgroups(gids)", TRUE)
                               /\ GMade("setgroups(saved)", TRUE)
         /\ GMade("setgroups(saved)", FALSE) => g_ret = NXT_ERROR
         /\ GMade("setgroups(saved)", TRUE) => g_id.groups = g_groups0

\* the call has returned NXT_ERROR after the target's list was read and
\* the restore failed
C13_Witness ==
    /\ g_pc = "returned"
    /\ GMade("getgroups(gids)", TRUE)
    /\ GMade("setgroups(saved)", FALSE)
    /\ g_ret = NXT_ERROR

\* C14 (as stated): after any return uc->gids is NULL, or it holds the
\* supplementary groups that were read back for the target user, with
\* uc->ngroups their number.
C14_GidsAbsentOrTargetGroups ==
    g_pc = "returned" =>
        \/ g_uc.gids_null
        \/ /\ g_uc.gids_filled
           /\ SeqSet(g_uc.gids) = InitgroupsSet(g_uc.user, g_uc.base_gid)
           /\ g_uc.ngroups = Len(g_uc.gids)

\* the values of uc->uid and uc->base_gid after both lookups succeeded
Resolved ==
    /\ g_uc.uid = PwUid(g_in.user)
    /\ g_uc.base_gid = IF g_in.group \in {"NULL", ""} THEN PwGid(g_in.user)
                       ELSE GrGid(g_in.group)

\* no call that changes the group set of the process was made, and the
\* set is what it was
GroupsUntouched ==
    /\ GCalls("initgroups") = {}
    /\ GCalls("setgroups(saved)") = {}
    /\ g_id.groups = g_groups0

\* C15: for a caller that is not the super-user, and for one whose
\* getgroups(0, NULL) reports more than NGROUPS_MAX groups, the call
\* returns NXT_OK with uid and base_gid resolved and uc->gids NULL, and
\* makes no call that changes the group set; a failed getpwnam or getgrnam
\* returns NXT_ERROR before any such call.  The group set never changes
\* before initgroups is reached.
C15_SkipCasesLeaveGroupsAlone ==
    /\ (g_pc = "returned" /\ g_id.uid # RootUid
          /\ ~GMade("getpwnam", FALSE) /\ ~GMade("getgrnam", FALSE)) =>
         /\ g_ret = NXT_OK
         /\ Resolved
         /\ g_uc.gids_null
         /\ GroupsUntouched
         /\ GCalls("getgroups(0)") = {}
    /\ (g_pc = "returned" /\ GMade("getgroups(0)", TRUE)
          /\ Cardinality(g_groups0) > NgroupsMax) =>
         /\ g_ret = NXT_OK
         /\ Resolved
         /\ g_uc.gids_null
         /\ GroupsUntouched
         /\ g_trace[Len(g_trace)] = <<"getgroups(0)", TRUE>>
    /\ (GMade("getpwnam", FALSE) \/ GMade("getgrnam", FALSE)) =>
         /\ g_pc = "returned"
         /\ g_ret = NXT_ERROR
         /\ g_uc.gids_null
         /\ GroupsUntouched
         /\ g_trace[Len(g_trace)][2] = FALSE
    /\ GCalls("initgroups") = {} => g_id.groups = g_groups0

\* the super-user with more than NGROUPS_MAX groups got NXT_OK and no list
C15_Witness ==
    /\ g_pc = "returned"
    /\ g_id.uid = RootUid
    /\ Cardinality(g_groups0) > NgroupsMax
    /\ g_in.group = "staff"
    /\ g_ret = NXT_OK
    /\ g_uc.gids_null
    /\ g_uc.base_gid = 50

\* the table and the pool of every record are left as they are
RegistryUnchanged ==
    /\ connected_ports' = connected_ports
    /\ cp_mem_pool' = cp_mem_pool
    /\ pools_created' = pools_created

\* C16: a remove of a port that is not in the table leaves the table and
\* the pool as they are in each of its steps and goes on to the unlock,
\* with a pool and without one (it creates none); a find changes neither
\* and gives NULL for a key that is not in the table.  A record without a
\* pool has an empty table.
C16_AbsentKeyIsNoOp ==
    /\ [](\A p \in RegProcs :
             cp_mem_pool[p] = NullPool => connected_ports[p] = {})
    /\ [][\A t \in Threads :
             LET p == t_op[t].proc
                 absent == t_op[t].port \notin connected_ports[p]
             IN
             /\ (t_pc[t] = "remove_pool" /\ t_pc'[t] # "remove_pool") =>
                  /\ RegistryUnchanged
                  /\ cp_mem_pool[p] = NullPool => t_pc'[t] = "unlock"
                  /\ cp_mem_pool[p] # NullPool => t_pc'[t] = "remove_hash"
             /\ (t_pc[t] = "remove_hash" /\ t_pc'[t] # "remove_hash"
                   /\ absent) =>
                  /\ RegistryUnchanged
                  /\ t_pc'[t] = "unlock"
             /\ (t_pc[t] = "find_hash" /\ t_pc'[t] # "find_hash") =>
                  /\ RegistryUnchanged
                  /\ t_pc'[t] = "unlock"
                  /\ absent => t_res'[t] = {}
             /\ (t_pc[t] = "unlock" /\ t_pc'[t] # "unlock") =>
                  /\ RegistryUnchanged
                  /\ t_pc'[t] = "idle"
          ]_vars

\* a remove of a key that was never added is about to unlock, in a record
\* whose table holds another port
C16_Witness ==
    \E t \in Threads :
        /\ t_pc[t] = "unlock"
        /\ t_op[t].op = "remove"
        /\ last_mod[t_op[t].proc][t_op[t].port] = "none"
        /\ connected_ports[t_op[t].proc] # {}
        /\ t_op[t].port \notin connected_ports[t_op[t].proc]

\* C19: nxt_mp_create is called at most once for a record, by an add that
\* holds the mutex and finds no pool; the pool, once there, is never
\* replaced or reset; every insertion is made with the pool present; a
\* remove or a find creates none.
C19_PoolCreatedOnce ==
    /\ [](\A p \in RegProcs :
             /\ pools_created[p] <= 1
             /\ cp_mem_pool[p] = pools_created[p]
             /\ connected_ports[p] # {} => cp_mem_pool[p] # NullPool
             /\ \A t \in Threads :
                  (t_pc[t] = "add_hash" /\ t_op[t].proc = p)
                    => cp_mem_pool[p] # NullPool)
    /\ [][\A p \in RegProcs :
             /\ cp_mem_pool[p] # NullPool => cp_mem_pool'[p] = cp_mem_pool[p]
             /\ cp_mem_pool'[p] # cp_mem_pool[p] =>
                  \E t \in Threads :
                      /\ t_op[t] = [op |-> "add", proc |-> p,
                                    port |-> t_op[t].port]
                      /\ t_pc[t] = "add_pool"
                      /\ t_pc'[t] = "add_hash"
                      /\ cp_mutex[p] = t
          ]_vars

\* two adds of different ports to one record have both completed, and
\* one pool was created
C19_Witness ==
    \E p \in RegProcs :
        /\ connected_ports[p] = RegPorts
        /\ pools_created[p] = 1
        /\ cp_mem_pool[p] = 1
        /\ \A t \in Threads : t_pc[t] = "idle"

\* the steps of the child in the order of the function
DaemonSteps == <<"setsid", "umask", "open", "dup2(stdin)", "dup2(stdout)",
                 "close">>

\* what holds of nxt_process_daemon apart from the fate of fd: only the
\* child goes on after fork() and the parent exits with 0; the steps are
\* made in the order of DaemonSteps; a failed step is the last one made
\* and gives NXT_ERROR, with the session, the mask and the descriptor of
\* the earlier steps left as they were made; on NXT_OK stdin and stdout
\* are on the null device
DaemonOrderAndFailure ==
    /\ d_trace # <<>> => d_parent \in {"forked", "exited"}
    /\ d_parent = "exited" <=> d_parent_exit = 0
    /\ d_parent = "none" => (d_pc \in {"fork", "returned"} /\ d_trace = <<>>)
    /\ (d_parent = "none" /\ d_pc = "returned") => d_ret = NXT_ERROR
    /\ Len(d_trace) <= Len(DaemonSteps)
    /\ \A i \in DOMAIN d_trace :
         /\ d_trace[i][1] = DaemonSteps[i]
         /\ i < Len(d_trace) => d_trace[i][2]
    /\ (d_trace # <<>> /\ ~d_trace[Len(d_trace)][2]) =>
         (d_pc = "returned" /\ d_ret = NXT_ERROR)
    /\ (d_pc = "returned" /\ d_ret = NXT_ERROR /\ d_trace # <<>>) =>
         ~d_trace[Len(d_trace)][2]
    /\ d_session <=> <<"setsid", TRUE>> \in SeqSet(d_trace)
    /\ <<"umask", TRUE>> \in SeqSet(d_trace) => d_umask = 0
    /\ (<<"open", TRUE>> \in SeqSet(d_trace) /\ d_pc # "returned") =>
         d_fds[d_fd] = "null"
    /\ (<<"open", TRUE>> \in SeqSet(d_trace) /\ d_ret = NXT_ERROR) =>
         d_fds[d_fd] = "null"
    /\ (d_pc = "returned" /\ d_ret = NXT_OK) =>
         /\ d_parent \in {"forked", "exited"}
         /\ d_session
         /\ d_umask = 0
         /\ Len(d_trace) >= 5
         /\ d_fds[STDIN_FILENO] = "null"
         /\ d_fds[STDOUT_FILENO] = "null"

\* C18 (as stated): the parent exits with 0 and only the child goes on;
\* the steps run in order and a failing step ends the call with the
\* earlier ones left in place; on success stdin and stdout are on the
\* null device and fd has been closed unless it is the standard error
\* descriptor.
C18_FdClosedUnlessStderr ==
    /\ DaemonOrderAndFailure
    /\ (d_pc = "returned" /\ d_ret = NXT_OK) =>
         (d_fd # STDERR_FILENO => d_fds[d_fd] = "closed")

\* C18 (amended): as above, but on success fd has been closed exactly
\* when it is greater than the standard error descriptor; when open()
\* gave 0, 1 or 2 it is left open on the null device.
C18_FdClosedWhenAboveStderr ==
    /\ DaemonOrderAndFailure
    /\ (d_pc = "returned" /\ d_ret = NXT_OK) =>
         /\ d_fd > STDERR_FILENO =>
              (d_fds[d_fd] = "closed" /\ d_trace[Len(d_trace)][1] = "close")
         /\ d_fd <= STDERR_FILENO =>
              (d_fds[d_fd] = "null" /\ Len(d_trace) = 5)
         /\ \A n \in Fds : (n > STDERR_FILENO /\ n # d_fd) =>
              d_fds[n] # "null"

\* the child has returned NXT_OK after open() gave the descriptor 0, which
\* is left open, and the parent has exited
C18_Witness ==
    /\ d_pc = "returned"
    /\ d_ret = NXT_OK
    /\ d_fd = STDIN_FILENO
    /\ d_fds[STDIN_FILENO] = "null"
    /\ d_fds[STDOUT_FILENO] = "null"
    /\ d_parent = "exited"

\* C20: port_cleanups of a record is the number of callbacks registered
\* for it that have not fired, and is never negative; the port list of a
\* record holds the ports attached to it, each once, in the order of the
\* attaches; a record without ports stays in the table.  An attach raises
\* the count of its record by one, registers one callback, appends the
\* port at the tail and sets port->process, and changes nothing of the
\* other records and ports.
C20_CountIsPendingCallbacks ==
    /\ [](\A p \in Records :
             /\ port_cleanups[p] = Cardinality(Pending(p))
             /\ port_cleanups[p] >= 0
             /\ SeqSet(ports[p]) = Attached(p)
             /\ Len(ports[p]) = Cardinality(Attached(p))
             /\ Attached(p) = {} => (p \in processes /\ remove_calls[p] = 0))
    /\ [][\A p \in Records, q \in PortIds :
             (port_process[q] = NoProcess /\ port_process'[q] = p) =>
                 /\ port_cleanups' = [port_cleanups EXCEPT ![p] = @ + 1]
                 /\ ports' = [ports EXCEPT ![p] = Append(@, q)]
                 /\ mp_cleanup[q] = "none"
                 /\ mp_cleanup' = [mp_cleanup EXCEPT ![q] = "pending"]
                 /\ port_process' = [port_process EXCEPT ![q] = p]
                 /\ processes' = processes
          ]_vars

\* a record with two ports attached, the first of which has had its
\* cleanup, beside a record that never had a port
C20_Witness ==
    \E p, r \in Records :
        /\ Len(ports[p]) = 2
        /\ mp_cleanup[ports[p][1]] = "fired"
        /\ mp_cleanup[ports[p][2]] = "pending"
        /\ port_cleanups[p] = 1
        /\ p \in processes
        /\ Attached(r) = {}
        /\ r \in processes

=============================================================================
